---- MODULE Spec2Model ----
(***************************************************************************)
(* Model of the MailChannels-to-SMTP relay (main.go): the HTTP handler     *)
(* handleSendEmail, the SMTP send loop sendEmails, the dry-run renderer    *)
(* renderMessage, and the parts of gomail.v2 and encoding/base64 that the  *)
(* handler's outcome depends on.  One request is handled at a time: the    *)
(* handler shares no mutable state between requests.                       *)
(***************************************************************************)
EXTENDS Integers, Sequences, FiniteSets, TLC

VARIABLES env, pc, r, mailBody, dryRun, d, i, m, rendered, status, errText,
          attempts, dials, sends, failed

vars == <<env, pc, r, mailBody, dryRun, d, i, m, rendered, status, errText,
          attempts, dials, sends, failed>>

----------------------------------------------------------------------------
(* Bounds of the model *)

MaxPers == 3
MaxAtt == 2
MaxTo == 2

BoundedSeq(S, n) == UNION {[1..k -> S] : k \in 0..n}

Iota(n) == [j \in 1..n |-> j]

----------------------------------------------------------------------------
(* HTTP status codes used by the handler *)

StatusOK == 200
StatusAccepted == 202
StatusBadRequest == 400
StatusMethodNotAllowed == 405
StatusInternalServerError == 500

----------------------------------------------------------------------------
(* Request model: EmailAddress, *EmailAddress, Attachment, ContentItem,    *)
(* Personalization, MailSendBody.  The fields that neither sendEmails nor  *)
(* renderMessage reads (the DKIM fields, and the request-level headers,    *)
(* subject and mailfrom) are left out.                                     *)

EmailAddress(name, email) == [name |-> name, email |-> email]

\* *EmailAddress: a pointer that is nil or points to an address
NilAddr == [isNil |-> TRUE, name |-> "", email |-> ""]
PtrTo(a) == [isNil |-> FALSE, name |-> a.name, email |-> a.email]

Attachment(filename, type, content) ==
    [filename |-> filename, type |-> type, content |-> content]

ContentItem(type, value) == [type |-> type, value |-> value]

Personalization(to, cc, bcc, subject, headers, replyTo, from) ==
    [to |-> to, cc |-> cc, bcc |-> bcc, subject |-> subject,
     headers |-> headers, reply_to |-> replyTo, from |-> from]

MailSendBody(personalizations, attachments, replyTo, from, content) ==
    [personalizations |-> personalizations, attachments |-> attachments,
     reply_to |-> replyTo, from |-> from, content |-> content]

----------------------------------------------------------------------------
(* encoding/base64: StdEncoding.DecodeString, on strings given as          *)
(* sequences of characters                                                 *)

B64Alphabet ==
    <<"A","B","C","D","E","F","G","H","I","J","K","L","M","N","O","P",
      "Q","R","S","T","U","V","W","X","Y","Z","a","b","c","d","e","f",
      "g","h","i","j","k","l","m","n","o","p","q","r","s","t","u","v",
      "w","x","y","z","0","1","2","3","4","5","6","7","8","9","+","/">>

IsB64Char(c) == \E k \in 1..64 : B64Alphabet[k] = c

B64Value(c) == (CHOOSE k \in 1..64 : B64Alphabet[k] = c) - 1

\* one quantum of four characters; last is TRUE for the final quantum, the
\* only one that may carry padding
DecodeQuantum(q, last) ==
    IF ~(IsB64Char(q[1]) /\ IsB64Char(q[2]))
    THEN [err |-> TRUE, bytes |-> <<>>]
    ELSE IF q[3] = "=" /\ q[4] = "="
    THEN IF last
         THEN [err |-> FALSE,
               bytes |-> <<(B64Value(q[1]) * 4 + B64Value(q[2]) \div 16) % 256>>]
         ELSE [err |-> TRUE, bytes |-> <<>>]
    ELSE IF ~IsB64Char(q[3])
    THEN [err |-> TRUE, bytes |-> <<>>]
    ELSE IF q[4] = "="
    THEN IF last
         THEN [err |-> FALSE,
               bytes |-> <<(B64Value(q[1]) * 4 + B64Value(q[2]) \div 16) % 256,
                           (B64Value(q[2]) * 16 + B64Value(q[3]) \div 4) % 256>>]
         ELSE [err |-> TRUE, bytes |-> <<>>]
    ELSE IF ~IsB64Char(q[4])
    THEN [err |-> TRUE, bytes |-> <<>>]
    ELSE [err |-> FALSE,
          bytes |-> <<(B64Value(q[1]) * 4 + B64Value(q[2]) \div 16) % 256,
                      (B64Value(q[2]) * 16 + B64Value(q[3]) \div 4) % 256,
                      (B64Value(q[3]) * 64 + B64Value(q[4])) % 256>>]

RECURSIVE DecodeString(_)
DecodeString(s) ==
    IF Len(s) = 0 THEN [err |-> FALSE, bytes |-> <<>>]
    ELSE IF Len(s) < 4 THEN [err |-> TRUE, bytes |-> <<>>]
    ELSE LET q == DecodeQuantum(SubSeq(s, 1, 4), Len(s) = 4)
             rest == DecodeString(SubSeq(s, 5, Len(s)))
         IN  IF q.err \/ rest.err
             THEN [err |-> TRUE, bytes |-> <<>>]
             ELSE [err |-> FALSE, bytes |-> q.bytes \o rest.bytes]

----------------------------------------------------------------------------
(* gomail.v2: the Message operations that sendEmails calls *)

NewMessage == [header |-> [k \in {} |-> <<>>], parts |-> <<>>, attachments |-> <<>>]

\* Message.SetHeader(field, value...): replaces the values of the field
SetHeader(msg, field, value) ==
    [msg EXCEPT !.header =
        [k \in (DOMAIN msg.header) \cup {field} |->
            IF k = field THEN value ELSE msg.header[k]]]

\* Message.FormatAddress(address, name): the bare address when the name is
\* empty, otherwise the quoted name followed by the address in angle brackets
FormatAddress(address, name) ==
    IF name = "" THEN address ELSE "\"" \o name \o "\" <" \o address \o ">"

\* Message.SetBody(contentType, body): replaces the parts of the message
SetBody(msg, contentType, body) ==
    [msg EXCEPT !.parts = <<[type |-> contentType, value |-> body]>>]

\* Message.Attach(filename, SetCopyFunc(...)): appends an attachment
Attach(msg, filename, bytes) ==
    [msg EXCEPT !.attachments = Append(@, [filename |-> filename, bytes |-> bytes])]

HeaderOf(msg, field) ==
    IF field \in DOMAIN msg.header THEN msg.header[field] ELSE <<>>

----------------------------------------------------------------------------
(* sendEmails: assembling the message of one personalization *)

\* for _, a := range list { m.SetHeader(field, m.FormatAddress(a.Email, a.Name)) }
RECURSIVE SetAddressHeaders(_, _, _)
SetAddressHeaders(msg, field, list) ==
    IF Len(list) = 0 THEN msg
    ELSE SetAddressHeaders(
            SetHeader(msg, field, <<FormatAddress(list[1].email, list[1].name)>>),
            field, Tail(list))

SendFrom_pers(body, p) == p.from

\* the address of the From header
SendFrom(body, p) == body.from

SendReplyTo_reqFirst(body, p) ==
    IF ~body.reply_to.isNil THEN body.reply_to ELSE p.reply_to

\* the Reply-To choice of the send path; NilAddr when no header is set
SendReplyTo(body, p) ==
    IF ~p.reply_to.isNil THEN p.reply_to
    ELSE IF ~body.reply_to.isNil THEN body.reply_to
    ELSE NilAddr

SetReplyTo(msg, body, p) ==
    LET rt == SendReplyTo(body, p)
    IN  IF rt.isNil THEN msg
        ELSE SetHeader(msg, "Reply-To", <<FormatAddress(rt.email, rt.name)>>)

\* for k, v := range p.Headers { m.SetHeader(k, v) }: the keys of a map are
\* distinct, so the result does not depend on the iteration order
SetCustomHeaders(msg, headers) ==
    [msg EXCEPT !.header =
        [k \in (DOMAIN msg.header) \cup (DOMAIN headers) |->
            IF k \in DOMAIN headers THEN <<headers[k]>> ELSE msg.header[k]]]

\* for _, content := range mailBody.Content { m.SetBody(...) }
RECURSIVE SetBodies(_, _)
SetBodies(msg, content) ==
    IF Len(content) = 0 THEN msg
    ELSE SetBodies(SetBody(msg, content[1].type, content[1].value), Tail(content))

DecodeAttachment_lenient(content) ==
    [err |-> FALSE, bytes |-> DecodeString(content).bytes]

DecodeAttachment(content) == DecodeString(content)

RECURSIVE AttachAll_skipBad(_, _)
AttachAll_skipBad(msg, atts) ==
    IF Len(atts) = 0 THEN [err |-> FALSE, msg |-> msg]
    ELSE LET dec == DecodeString(atts[1].content)
         IN  IF dec.err THEN AttachAll_skipBad(msg, Tail(atts))
             ELSE AttachAll_skipBad(Attach(msg, atts[1].filename, dec.bytes), Tail(atts))

\* for _, attachment := range mailBody.Attachments { decode; m.Attach }
RECURSIVE AttachAll(_, _)
AttachAll(msg, atts) ==
    IF Len(atts) = 0 THEN [err |-> FALSE, msg |-> msg]
    ELSE LET dec == DecodeAttachment(atts[1].content)
         IN  IF dec.err THEN [err |-> TRUE, msg |-> msg]
             ELSE AttachAll(Attach(msg, atts[1].filename, dec.bytes), Tail(atts))

\* the body of the loop of sendEmails up to the DialAndSend call
BuildMessage(body, p) ==
    LET m1 == SetHeader(NewMessage, "From",
                  <<FormatAddress(SendFrom(body, p).email, SendFrom(body, p).name)>>)
        m2 == SetAddressHeaders(m1, "To", p.to)
        m3 == SetAddressHeaders(m2, "Cc", p.cc)
        m4 == SetAddressHeaders(m3, "Bcc", p.bcc)
        m5 == SetHeader(m4, "Subject", <<p.subject>>)
        m6 == SetReplyTo(m5, body, p)
        m7 == SetCustomHeaders(m6, p.headers)
        m8 == SetBodies(m7, body.content)
    IN  AttachAll(m8, body.attachments)

----------------------------------------------------------------------------
(* renderMessage and formatAddressList.  The rendered text is kept as the  *)
(* sequence of pieces written to the builder: Hdr(k, v) is the line        *)
(* "k: v\n", Raw(s) is the text s.                                         *)

Hdr(k, v) == [k |-> k, v |-> v]
Raw(s) == [k |-> "", v |-> s]

RenderAddress(a) == a.name \o " <" \o a.email \o ">"

RECURSIVE formatAddressList(_)
formatAddressList(addresses) ==
    IF Len(addresses) = 0 THEN ""
    ELSE IF Len(addresses) = 1 THEN RenderAddress(addresses[1])
    ELSE RenderAddress(addresses[1]) \o ", " \o formatAddressList(Tail(addresses))

RenderReplyTo_reqFirst(body, p) ==
    IF ~body.reply_to.isNil THEN <<Hdr("Reply-To", RenderAddress(body.reply_to))>>
    ELSE IF ~p.reply_to.isNil THEN <<Hdr("Reply-To", RenderAddress(p.reply_to))>>
    ELSE <<>>

\* the Reply-To line of the render path
RenderReplyTo(body, p) ==
    IF ~p.reply_to.isNil THEN <<Hdr("Reply-To", RenderAddress(p.reply_to))>>
    ELSE IF ~body.reply_to.isNil THEN <<Hdr("Reply-To", RenderAddress(body.reply_to))>>
    ELSE <<>>

\* the orders in which a range over the map may visit its keys
KeyOrders(headers) ==
    {o \in [1..Cardinality(DOMAIN headers) -> DOMAIN headers] :
        \A x, y \in DOMAIN o : x # y => o[x] # o[y]}

RenderHeaders(headers, order) ==
    [j \in DOMAIN order |-> Hdr(order[j], headers[order[j]])]

RECURSIVE RenderContent(_)
RenderContent(content) ==
    IF Len(content) = 0 THEN <<>>
    ELSE <<Hdr("Content-Type", content[1].type), Raw("\n"),
           Raw(content[1].value), Raw("\n\n")>> \o RenderContent(Tail(content))

RenderAttachments(atts) ==
    [j \in DOMAIN atts |->
        Raw("Attachment: " \o atts[j].filename \o " (Type: " \o atts[j].type \o ")\n")]

\* order: the order in which the range over p.Headers visits the keys
renderMessage(body, p, order) ==
    <<Hdr("From", RenderAddress(body.from)), Hdr("To", formatAddressList(p.to))>>
    \o (IF Len(p.cc) > 0 THEN <<Hdr("CC", formatAddressList(p.cc))>> ELSE <<>>)
    \o (IF Len(p.bcc) > 0 THEN <<Hdr("BCC", formatAddressList(p.bcc))>> ELSE <<>>)
    \o <<Hdr("Subject", p.subject)>>
    \o RenderReplyTo(body, p)
    \o RenderHeaders(p.headers, order)
    \o <<Raw("\n")>>
    \o RenderContent(body.content)
    \o RenderAttachments(body.attachments)

----------------------------------------------------------------------------
(* Inputs: the requests the handler is given *)

Ann == EmailAddress("Ann", "ann@x.io")
Bob == EmailAddress("", "bob@y.io")
Cat == EmailAddress("Cat", "cat@z.io")
Svc == EmailAddress("Svc", "svc@x.io")
Eve == EmailAddress("Eve", "eve@p.io")
ReqReply == EmailAddress("Req", "req@x.io")
PersReply == EmailAddress("Per", "per@y.io")

CustomValue == "custom@h.io"

\* the maps from some of the keys to the custom value
HeaderMapsOver(keys) == UNION {[dd -> {CustomValue}] : dd \in SUBSET keys}

\* attachment contents: "aGk=" is valid base64; "aGk" lacks its padding and
\* "a!k=" has a character outside the alphabet
ValidContent == <<"a", "G", "k", "=">>
Unpadded == <<"a", "G", "k">>
BadChar == <<"a", "!", "k", "=">>

AttContents == {ValidContent, Unpadded}

Attachments == {Attachment("f.bin", "application/x", c) : c \in AttContents}

TextPlain == ContentItem("text/plain", "hi")
TextHtml == ContentItem("text/html", "<p>hi</p>")

\* the requests of Spec: up to MaxPers personalizations, up to MaxAtt attachments
FlowPersonalizations ==
    {Personalization(to, <<>>, <<>>, "Hello", h, NilAddr, Eve) :
        to \in {<<Ann>>, <<Ann, Bob>>}, h \in HeaderMapsOver({"From"})}

FlowBodies ==
    {MailSendBody(ps, as, NilAddr, Svc, c) :
        ps \in BoundedSeq(FlowPersonalizations, MaxPers),
        as \in BoundedSeq(Attachments, MaxAtt),
        c \in {<<TextPlain>>, <<TextPlain, TextHtml>>}}

\* the requests of SpecMsg: at most one personalization, with every
\* combination of recipients, reply_to and custom headers
MsgPersonalizations ==
    {Personalization(to, cc, bcc, "Hello", h, rt, Eve) :
        to \in BoundedSeq({Ann, Bob}, MaxTo),
        cc \in {<<>>, <<Cat>>}, bcc \in {<<>>, <<Cat>>},
        h \in HeaderMapsOver({"Reply-To", "X-Tag"}),
        rt \in {NilAddr, PtrTo(PersReply)}}

MsgBodies ==
    {MailSendBody(ps, as, rt, Svc, <<TextPlain>>) :
        ps \in BoundedSeq(MsgPersonalizations, 1),
        as \in BoundedSeq({Attachment("f.bin", "application/x", BadChar)}, 1),
        rt \in {NilAddr, PtrTo(ReqReply)}}

EmptyBody == MailSendBody(<<>>, <<>>, NilAddr, EmailAddress("", ""), <<>>)

\* a request body that json.Decode rejects
Undecodable == [ok |-> FALSE, val |-> EmptyBody]

Requests(bodies) ==
    [method : {"POST", "GET"},
     body : {Undecodable} \cup {[ok |-> TRUE, val |-> b] : b \in bodies},
     query : {"true", "1", ""}]

NoRequest == [method |-> "", body |-> Undecodable, query |-> ""]

\* SMTP_ENCRYPT: loadEnv refuses to start with an empty value
EncryptValues == {"SSL", "TLS", "PLAIN", "STARTTLS"}

----------------------------------------------------------------------------
(* State *)

NoDialer == [set |-> FALSE, SSL |-> FALSE]

N == Len(mailBody.personalizations)

Init ==
    /\ env \in [SMTP_ENCRYPT : EncryptValues]
    /\ pc = "idle"
    /\ r = NoRequest
    /\ mailBody = EmptyBody
    /\ dryRun = FALSE
    /\ d = NoDialer
    /\ i = 0
    /\ m = NewMessage
    /\ rendered = <<>>
    /\ status = 0
    /\ errText = ""
    /\ attempts = <<>>
    /\ dials = 0
    /\ sends = 0
    /\ failed = 0

----------------------------------------------------------------------------
(* handleSendEmail *)

\* the server hands a request to the handler
Receive(reqs) ==
    /\ pc = "idle"
    /\ \E req \in reqs : r' = req
    /\ pc' = "method"
    /\ UNCHANGED <<env, mailBody, dryRun, d, i, m, rendered, status, errText,
                   attempts, dials, sends, failed>>

MethodIsPost_any(method) == TRUE

MethodIsPost(method) == method = "POST"

\* if r.Method != http.MethodPost { http.Error(405); return }
CheckMethod ==
    /\ pc = "method"
    /\ IF MethodIsPost(r.method)
       THEN pc' = "decode" /\ UNCHANGED <<status, errText>>
       ELSE /\ pc' = "done"
            /\ status' = StatusMethodNotAllowed
            /\ errText' = "Method not allowed"
    /\ UNCHANGED <<env, r, mailBody, dryRun, d, i, m, rendered,
                   attempts, dials, sends, failed>>

\* err := json.NewDecoder(r.Body).Decode(&mailBody); 400 on error
DecodeBody ==
    /\ pc = "decode"
    /\ IF r.body.ok
       THEN pc' = "branch" /\ mailBody' = r.body.val /\ UNCHANGED <<status, errText>>
       ELSE /\ pc' = "done"
            /\ status' = StatusBadRequest
            /\ errText' = "Invalid request body"
            /\ UNCHANGED mailBody
    /\ UNCHANGED <<env, r, dryRun, d, i, m, rendered, attempts, dials, sends, failed>>

IsDryRun_one(query) == query = "1"

\* r.URL.Query().Get("dry-run") == "true"
IsDryRun(query) == query = "true"

Branch ==
    /\ pc = "branch"
    /\ dryRun' = IsDryRun(r.query)
    /\ pc' = IF dryRun' THEN "render" ELSE "sendEmails"
    /\ i' = 1
    /\ UNCHANGED <<env, r, mailBody, d, m, rendered, status, errText,
                   attempts, dials, sends, failed>>

\* renderedMessages[i] = renderMessage(mailBody, p)
RenderNext ==
    /\ pc = "render"
    /\ i <= N
    /\ \E order \in KeyOrders(mailBody.personalizations[i].headers) :
          rendered' = Append(rendered,
                             renderMessage(mailBody, mailBody.personalizations[i], order))
    /\ i' = i + 1
    /\ UNCHANGED <<env, pc, r, mailBody, dryRun, d, m, status, errText,
                   attempts, dials, sends, failed>>

\* json.NewEncoder(w).Encode(...): the first write answers 200
RenderDone ==
    /\ pc = "render"
    /\ i > N
    /\ status' = StatusOK
    /\ pc' = "done"
    /\ UNCHANGED <<env, r, mailBody, dryRun, d, i, m, rendered, errText,
                   attempts, dials, sends, failed>>

----------------------------------------------------------------------------
(* sendEmails, with the handler's answer to its result *)

EncryptSupported_any(encrypt) == TRUE

\* the cases of the switch that do not return an error
EncryptSupported(encrypt) == encrypt \in {"SSL", "TLS", "PLAIN"}

\* gomail.NewDialer and the switch on SMTP_ENCRYPT
NewDialer ==
    /\ pc = "sendEmails"
    /\ IF EncryptSupported(env.SMTP_ENCRYPT)
       THEN /\ d' = [set |-> TRUE, SSL |-> (env.SMTP_ENCRYPT = "SSL")]
            /\ pc' = "loop"
            /\ UNCHANGED <<status, errText>>
       ELSE /\ d' = [set |-> TRUE, SSL |-> FALSE]
            /\ pc' = "done"
            /\ status' = StatusInternalServerError
            /\ errText' = "invalid SMTP_ENCRYPT value"
    /\ UNCHANGED <<env, r, mailBody, dryRun, i, m, rendered,
                   attempts, dials, sends, failed>>

\* one iteration of the loop up to the DialAndSend call
Assemble ==
    /\ pc = "loop"
    /\ i <= N
    /\ LET built == BuildMessage(mailBody, mailBody.personalizations[i])
       IN  IF built.err
           THEN /\ pc' = "done"
                /\ status' = StatusInternalServerError
                /\ errText' = "failed to decode attachment content"
                /\ UNCHANGED m
           ELSE /\ pc' = "DialAndSend"
                /\ m' = built.msg
                /\ UNCHANGED <<status, errText>>
    /\ UNCHANGED <<env, r, mailBody, dryRun, d, i, rendered,
                   attempts, dials, sends, failed>>

DialsAfter_reuse(n) == IF n = 0 THEN 1 ELSE n

\* Dialer.DialAndSend opens a connection of its own: d.Dial()
DialsAfter(n) == n + 1

\* d.DialAndSend(m) returns nil: the loop goes on
DialAndSendOk ==
    /\ pc = "DialAndSend"
    /\ attempts' = Append(attempts, i)
    /\ dials' = DialsAfter(dials)
    /\ sends' = sends + 1
    /\ i' = i + 1
    /\ pc' = "loop"
    /\ UNCHANGED <<env, r, mailBody, dryRun, d, m, rendered, status, errText, failed>>

DialAndSendErr_continue ==
    /\ pc = "DialAndSend"
    /\ attempts' = Append(attempts, i)
    /\ dials' = DialsAfter(dials)
    /\ \E dialed \in BOOLEAN : sends' = IF dialed THEN sends + 1 ELSE sends
    /\ failed' = IF failed = 0 THEN i ELSE failed
    /\ i' = i + 1
    /\ pc' = "loop"
    /\ UNCHANGED <<env, r, mailBody, dryRun, d, m, rendered, status, errText>>

\* d.DialAndSend(m) returns an error, from the dial or from the send:
\* sendEmails returns it and the handler answers 500
DialAndSendErr ==
    /\ pc = "DialAndSend"
    /\ attempts' = Append(attempts, i)
    /\ dials' = DialsAfter(dials)
    /\ \E dialed \in BOOLEAN : sends' = IF dialed THEN sends + 1 ELSE sends
    /\ failed' = i
    /\ pc' = "done"
    /\ status' = StatusInternalServerError
    /\ errText' = "failed to send email"
    /\ UNCHANGED <<env, r, mailBody, dryRun, d, i, m, rendered>>

\* the loop is over: sendEmails returns nil, w.WriteHeader(202)
SendDone ==
    /\ pc = "loop"
    /\ i > N
    /\ status' = StatusAccepted
    /\ pc' = "done"
    /\ UNCHANGED <<env, r, mailBody, dryRun, d, i, m, rendered, errText,
                   attempts, dials, sends, failed>>

\* the handler has returned; nothing of the request is kept
NextRequest ==
    /\ pc = "done"
    /\ pc' = "idle"
    /\ r' = NoRequest
    /\ mailBody' = EmptyBody
    /\ dryRun' = FALSE
    /\ d' = NoDialer
    /\ i' = 0
    /\ m' = NewMessage
    /\ rendered' = <<>>
    /\ status' = 0
    /\ errText' = ""
    /\ attempts' = <<>>
    /\ dials' = 0
    /\ sends' = 0
    /\ failed' = 0
    /\ UNCHANGED env

Handle ==
    \/ CheckMethod
    \/ DecodeBody
    \/ Branch
    \/ RenderNext
    \/ RenderDone
    \/ NewDialer
    \/ Assemble
    \/ DialAndSendOk
    \/ DialAndSendErr
    \/ SendDone
    \/ NextRequest

ReceiveFlow == Receive(Requests(FlowBodies))

ReceiveMsg == Receive(Requests(MsgBodies))

Next == ReceiveFlow \/ Handle

NextMsg == ReceiveMsg \/ Handle

Spec == Init /\ [][Next]_vars

SpecMsg == Init /\ [][NextMsg]_vars

----------------------------------------------------------------------------
(* Properties *)

\* the request in hand is a POST with a decodable body
Decodable == r.method = "POST" /\ r.body.ok

\* ... that asks for a dry run
DryRunRequest == Decodable /\ r.query = "true"

\* ... that asks for the emails to be sent
SendRequest == Decodable /\ r.query # "true"

InvalidContents == {Unpadded, BadChar}

\* the request body carries an attachment that is not valid base64
HasBadAttachment ==
    \E j \in DOMAIN r.body.val.attachments :
        r.body.val.attachments[j].content \in InvalidContents

NothingSent == attempts = <<>> /\ dials = 0 /\ sends = 0

\* the personalization the loop is at
CurP == mailBody.personalizations[i]

Formatted(a) == IF a.name = "" THEN a.email ELSE "\"" \o a.name \o "\" <" \o a.email \o ">"

\* C1: when DialAndSend fails on personalization k, the attempts made for
\* the request are exactly 1, 2, ..., k in order, each once; the request is
\* over with a 500 and no later attempt is ever added.
C1_AbortAtFirstFailure ==
    failed # 0 =>
        /\ SendRequest
        /\ attempts = Iota(failed)
        /\ pc = "done"
        /\ status = 500

C1_Witness ==
    /\ failed = 2
    /\ Len(r.body.val.personalizations) = 3
    /\ attempts = <<1, 2>>
    /\ status = 500

\* C2: a dry-run request never dials and never sends, whatever SMTP_ENCRYPT
\* is, and ends with a 200 and one rendering per personalization.
C2_DryRunNoNetwork ==
    DryRunRequest =>
        /\ NothingSent
        /\ pc = "done" => (status = 200 /\ Len(rendered) = Len(r.body.val.personalizations))

C2_Witness ==
    /\ DryRunRequest
    /\ pc = "done"
    /\ env.SMTP_ENCRYPT = "STARTTLS"
    /\ Len(r.body.val.personalizations) = 2
    /\ HasBadAttachment
    /\ status = 200
    /\ Len(rendered) = 2

\* the request is one in which nothing fails
NoFailure ==
    /\ SendRequest
    /\ env.SMTP_ENCRYPT \in {"SSL", "TLS", "PLAIN"}
    /\ ~HasBadAttachment
    /\ failed = 0

\* with no failure the N personalizations are attempted once each, in order,
\* and the answer is 202
AllAttempted ==
    (NoFailure /\ pc = "done") =>
        /\ status = 202
        /\ attempts = Iota(Len(r.body.val.personalizations))
        /\ sends = Len(r.body.val.personalizations)

\* the message handed to DialAndSend has the body and attachments of the
\* request: the last content item (SetBody replaces the previous body) and
\* every attachment, decoded
SharedContent ==
    pc = "DialAndSend" =>
        /\ m.parts = (IF Len(r.body.val.content) = 0 THEN <<>>
                      ELSE <<r.body.val.content[Len(r.body.val.content)]>>)
        /\ Len(m.attachments) = Len(r.body.val.attachments)
        /\ \A j \in DOMAIN m.attachments :
              /\ m.attachments[j].filename = r.body.val.attachments[j].filename
              /\ r.body.val.attachments[j].content = ValidContent
                    => m.attachments[j].bytes = <<104, 105>>

C4_UnsupportedEncrypt ==
    (SendRequest /\ env.SMTP_ENCRYPT \notin {"SSL", "TLS", "PLAIN"}) =>
        /\ NothingSent
        /\ pc = "done" => status = 500

C4_Witness ==
    /\ SendRequest
    /\ env.SMTP_ENCRYPT = "STARTTLS"
    /\ pc = "done"
    /\ Len(mailBody.personalizations) = 3
    /\ Len(mailBody.attachments) = 1
    /\ status = 500
    /\ errText = "invalid SMTP_ENCRYPT value"

\* C5 as stated: a send request with an attachment that is not valid base64
\* is answered 500
C5_Original ==
    (SendRequest /\ HasBadAttachment /\ pc = "done") => status = 500

\* C5: a send request with at least one personalization and an attachment
\* that is not valid base64 is answered 500 (with no personalization the
\* attachments are never decoded).
C5_BadAttachment500 ==
    (SendRequest /\ HasBadAttachment /\ pc = "done"
        /\ Len(r.body.val.personalizations) >= 1) => status = 500

C5_Witness ==
    /\ SendRequest
    /\ HasBadAttachment
    /\ pc = "done"
    /\ env.SMTP_ENCRYPT = "TLS"
    /\ Len(mailBody.personalizations) = 1
    /\ status = 500
    /\ errText = "failed to decode attachment content"

\* C6 as stated: a request with N personalizations that is sent performs
\* exactly one dial
C6_Original ==
    (SendRequest /\ pc = "done" /\ status = 202
        /\ Len(r.body.val.personalizations) >= 1) => dials = 1

\* C6: a connection is dialed once per attempted personalization: the dials
\* of a request are as many as its attempts, N when every send succeeds.
C6_DialPerAttempt ==
    /\ dials = Len(attempts)
    /\ (SendRequest /\ pc = "done" /\ status = 202)
          => dials = Len(r.body.val.personalizations)

C6_Witness ==
    /\ SendRequest
    /\ pc = "done"
    /\ status = 202
    /\ Len(r.body.val.personalizations) = 3
    /\ dials = 3

\* the reply_to the claim names for personalization p
ExpectedReplyTo(p) ==
    IF ~p.reply_to.isNil THEN p.reply_to ELSE r.body.val.reply_to

ReplyToLines(text) == SelectSeq(text, LAMBDA piece : piece.k = "Reply-To")

\* the sent message and the rendering of personalization p have the
\* expected Reply-To, or none
ReplyToAsExpected(p, sent, text) ==
    LET e == ExpectedReplyTo(p)
    IN  /\ sent => HeaderOf(m, "Reply-To") =
                      (IF e.isNil THEN <<>> ELSE <<Formatted(e)>>)
        /\ ~sent => ReplyToLines(text) =
                      (IF e.isNil THEN <<>>
                       ELSE <<Hdr("Reply-To", e.name \o " <" \o e.email \o ">")>>)

\* C7 as stated
C7_Original ==
    /\ pc = "DialAndSend" => ReplyToAsExpected(CurP, TRUE, <<>>)
    /\ \A j \in DOMAIN rendered :
          ReplyToAsExpected(r.body.val.personalizations[j], FALSE, rendered[j])

\* C7: for a personalization whose custom headers have no Reply-To key, the
\* Reply-To of the rendering and of the sent message is the personalization's
\* reply_to when set, else the request's reply_to when set, else absent, and
\* both paths choose alike.  (A custom Reply-To header replaces the choice in
\* the sent message and adds a line to the rendering.)
C7_ReplyToPrecedence ==
    /\ (pc = "DialAndSend" /\ "Reply-To" \notin DOMAIN CurP.headers)
          => ReplyToAsExpected(CurP, TRUE, <<>>)
    /\ \A j \in DOMAIN rendered :
          "Reply-To" \notin DOMAIN r.body.val.personalizations[j].headers
             => ReplyToAsExpected(r.body.val.personalizations[j], FALSE, rendered[j])

C7_Witness ==
    /\ pc = "DialAndSend"
    /\ ~CurP.reply_to.isNil
    /\ ~mailBody.reply_to.isNil
    /\ DOMAIN CurP.headers = {"X-Tag"}
    /\ HeaderOf(m, "Reply-To") = <<"\"Per\" <per@y.io>">>

\* C8: a request that is not a POST is answered 405 and a POST with an
\* undecodable body 400; neither renders nor sends anything.
C8_RejectedRequests ==
    /\ (pc # "idle" /\ r.method # "POST") =>
          /\ rendered = <<>> /\ NothingSent
          /\ pc = "done" => status = 405
    /\ (r.method = "POST" /\ ~r.body.ok) =>
          /\ rendered = <<>> /\ NothingSent
          /\ pc = "done" => status = 400

C8_Witness ==
    /\ pc = "done"
    /\ r.method = "GET"
    /\ r.body.ok
    /\ Len(r.body.val.personalizations) = 2
    /\ r.query = "true"
    /\ status = 405

\* C9: the To header of the message handed to DialAndSend lists every
\* address of the personalization's to list, in order.
C9_ToHeaderComplete ==
    pc = "DialAndSend" =>
        HeaderOf(m, "To") = [j \in DOMAIN CurP.to |-> Formatted(CurP.to[j])]

\* C10: a send request with an attachment that is not valid base64 makes no
\* send attempt for any personalization; the decode fails while the first
\* personalization is assembled.
C10_BadAttachmentNoSend ==
    (SendRequest /\ HasBadAttachment) =>
        /\ NothingSent
        /\ errText = "failed to decode attachment content" => i = 1

C10_Witness ==
    /\ SendRequest
    /\ HasBadAttachment
    /\ pc = "done"
    /\ Len(mailBody.personalizations) = 3
    /\ mailBody.attachments[1].content = ValidContent
    /\ errText = "failed to decode attachment content"
    /\ attempts = <<>>
    /\ status = 500

====
